---- MODULE Spec2Model ----
(***************************************************************************)
(* Model of src/src/main.py: the Adomian-decomposition solver for the      *)
(* Lane-Emden equation (class LaneEmdenSolver) and its driver main().      *)
(*                                                                         *)
(* The symbolic engine (sympy) is modelled by exact arithmetic on Laurent  *)
(* polynomials with rational coefficients over the symbols the program     *)
(* imports from sympy.abc.  A monomial is the tuple of the exponents of    *)
(* <<lamda, xi, s, t, u, q>>; a polynomial is a function from monomials to *)
(* non-zero rationals <<numerator, denominator>> in lowest terms.          *)
(***************************************************************************)
EXTENDS Integers, Sequences, FiniteSets, TLC

\* ------------------------------------------------------------------ bounds
MaxTerms == 3
MaxSolves == 2
BatchLen == 2

\* ------------------------------------------------------- rational numbers
\* Only({e : v \in {a}}) evaluates a once and names its value v in e; the
\* arithmetic below binds every operand this way before it uses it.
Only(S) == CHOOSE y \in S : TRUE

Abs(x) == IF x < 0 THEN -x ELSE x

RECURSIVE GCD(_, _)
GCD(a0, b0) ==
    Only({IF b = 0 THEN a ELSE GCD(b, a % b) : a \in {a0}, b \in {b0}})

\* the fraction n/d in lowest terms with a positive denominator
RNorm(n0, d0) ==
    Only({IF n = 0 THEN <<0, 1>>
          ELSE Only({IF d < 0 THEN <<-(n \div g), -(d \div g)>>
                     ELSE <<n \div g, d \div g>> : g \in {GCD(Abs(n), Abs(d))}})
          : n \in {n0}, d \in {d0}})

\* sums and products of fractions in lowest terms, over the least common
\* denominator and with cross-cancellation, as exact arithmetic does
RAdd(a0, b0) ==
    Only({Only({RNorm(a[1] * (b[2] \div g) + b[1] * (a[2] \div g), (a[2] \div g) * b[2])
                : g \in {GCD(a[2], b[2])}})
          : a \in {a0}, b \in {b0}})
RMul(a0, b0) ==
    Only({Only({RNorm((a[1] \div g1) * (b[1] \div g2), (a[2] \div g2) * (b[2] \div g1))
                : g1 \in {GCD(Abs(a[1]), b[2])}, g2 \in {GCD(Abs(b[1]), a[2])}})
          : a \in {a0}, b \in {b0}})
RDivInt(a0, k) == Only({RNorm(a[1], a[2] * k) : a \in {a0}})

RECURSIVE RSumF(_, _)
RSumF(fn0, S0) ==
    Only({IF S = {} THEN <<0, 1>>
          ELSE Only({RAdd(fn[x], RSumF(fn, S \ {x})) : x \in {CHOOSE y \in S : TRUE}})
          : fn \in {fn0}, S \in {S0}})

\* ---------------------------------------------------------------- symbols
\* from sympy.abc import lamda, m, q, s, t, u, xi  (m is not modelled: the
\* model's nonlinearities carry integer powers)
SymbolNames == <<"lamda", "xi", "s", "t", "u", "q">>
VarIdx(v) == CHOOSE i \in 1..Len(SymbolNames) : SymbolNames[i] = v
lamda == "lamda"
xi == "xi"
s == "s"
t == "t"
u == "u"
q == "q"

MOne == <<0, 0, 0, 0, 0, 0>>
MAdd(a, b) == [i \in 1..6 |-> a[i] + b[i]]
MSet(a, v, e) == [a EXCEPT ![VarIdx(v)] = e]
MExp(a, v) == a[VarIdx(v)]

\* ------------------------------------------------------------ polynomials
PZero == [mm \in {} |-> <<0, 1>>]
PTerm(mm, c0) == Only({IF c[1] = 0 THEN PZero ELSE [x \in {mm} |-> c] : c \in {c0}})
PConst(c) == PTerm(MOne, c)
PInt(n) == PConst(<<n, 1>>)
PSym(v) == PTerm(MSet(MOne, v, 1), <<1, 1>>)
PSymPow(v, e) == PTerm(MSet(MOne, v, e), <<1, 1>>)
Coef(p, mm) == IF mm \in DOMAIN p THEN p[mm] ELSE <<0, 1>>

\* a coefficient table without its vanished terms
NonZero(c0) == Only({[mm \in {x \in DOMAIN c : c[x][1] # 0} |-> c[mm]] : c \in {c0}})

PAdd(p0, r0) ==
    Only({NonZero([mm \in DOMAIN p \cup DOMAIN r |-> RAdd(Coef(p, mm), Coef(r, mm))])
          : p \in {p0}, r \in {r0}})

PNeg(p0) == Only({[mm \in DOMAIN p |-> <<-p[mm][1], p[mm][2]>>] : p \in {p0}})

PMul(p0, r0) ==
    Only({Only({NonZero([mm \in {MAdd(pr[1], pr[2]) : pr \in DOMAIN prod} |->
                           RSumF(prod, {pr \in DOMAIN prod : MAdd(pr[1], pr[2]) = mm})])
                : prod \in {[pr \in (DOMAIN p) \X (DOMAIN r) |-> RMul(p[pr[1]], r[pr[2]])]}})
          : p \in {p0}, r \in {r0}})

PDivInt(p0, k0) ==
    Only({[mm \in DOMAIN p |-> RDivInt(p[mm], k)] : p \in {p0}, k \in {k0}})

RECURSIVE PPow(_, _)
PPow(p0, n0) ==
    Only({IF n = 0 THEN PInt(1) ELSE PMul(p, PPow(p, n - 1)) : p \in {p0}, n \in {n0}})

RECURSIVE PSumF(_, _)
PSumF(fn0, S0) ==
    Only({IF S = {} THEN PZero
          ELSE Only({PAdd(fn[x], PSumF(fn, S \ {x})) : x \in {CHOOSE y \in S : TRUE}})
          : fn \in {fn0}, S \in {S0}})

\* Python's builtin sum() over a list of expressions
RECURSIVE PSumSeq(_)
PSumSeq(ps0) ==
    Only({IF ps = <<>> THEN PZero ELSE PAdd(ps[1], PSumSeq(Tail(ps))) : ps \in {ps0}})

\* expr.subs(v, r): every v^e becomes r^e (e >= 0 on the model's inputs)
Subs(p0, v, r0) ==
    Only({PSumF([mm \in DOMAIN p |->
                   PMul(PTerm(MSet(mm, v, 0), p[mm]), PPow(r, MExp(mm, v)))],
                DOMAIN p)
          : p \in {p0}, r \in {r0}})

\* one derivative with respect to v
Diff1(p0, v) ==
    Only({PSumF([mm \in {x \in DOMAIN p : MExp(x, v) # 0} |->
                   PTerm(MSet(mm, v, MExp(mm, v) - 1),
                         RMul(p[mm], <<MExp(mm, v), 1>>))],
                {x \in DOMAIN p : MExp(x, v) # 0})
          : p \in {p0}})

\* sympy.diff(expr, v, k)
RECURSIVE D(_, _, _)
D(p0, v, k0) ==
    Only({IF k = 0 THEN p ELSE D(Diff1(p, v), v, k - 1) : p \in {p0}, k \in {k0}})

\* sympy.integrate(expr, (v, 0, hi)) for a symbol hi; the integrands the
\* solver builds have exponent >= 0 in v, so the lower limit contributes 0
integrate(p0, v, hi) ==
    Only({PSumF([mm \in DOMAIN p |->
                   PTerm(MSet(MSet(mm, v, 0), hi,
                              MExp(MSet(mm, v, 0), hi) + MExp(mm, v) + 1),
                         RDivInt(p[mm], MExp(mm, v) + 1))],
                DOMAIN p)
          : p \in {p0}})

RECURSIVE factorial(_)
factorial(k0) == Only({IF k = 0 THEN 1 ELSE k * factorial(k - 1) : k \in {k0}})

\* sympy.simplify on the polynomial normal form: drop vanished terms and
\* reduce every coefficient to lowest terms
simplify(p0) ==
    Only({NonZero([mm \in DOMAIN p |-> RNorm(p[mm][1], p[mm][2])]) : p \in {p0}})

\* --------------------------------------------------- LaneEmdenSolver maths
\* _inverse_operator(func, variable)
inverse_operator(func, variable) ==
    Only({Only({integrate(PMul(PSymPow(s, -2), inner_integral), s, variable)
                : inner_integral \in {integrate(PMul(PSymPow(t, 2), func_t), t, s)}})
          : func_t \in {Subs(func, variable, PSym(t))}})

\* parametrized_sum: sum(self.us[i] * lamda**i for i in range(len(self.us)))
parametrized_sum(us0) ==
    Only({PSumF([i \in 0..(Len(us) - 1) |-> PMul(us[i + 1], PSymPow(lamda, i))],
                0..(Len(us) - 1))
          : us \in {us0}})

\* the Taylor coefficient divided by (num_terms - 1)! instead of k!
calculate_adomian_polynomial_by_terms(self, heap, k) ==
    Only({Only({Only({PDivInt(Subs(derivative, lamda, PZero), factorial(self.num_terms - 1))
                      : derivative \in {D(non_linear_function, lamda, k)}})
                : non_linear_function \in {Subs(self.non_linear_func, self.u, psum)}})
          : psum \in {parametrized_sum(heap[self.us])}})

\* _calculate_adomian_polynomial(k); self.us is the list heap[self.us]
calculate_adomian_polynomial(self, heap, k) ==
    Only({Only({Only({PDivInt(Subs(derivative, lamda, PZero), factorial(k))
                      : derivative \in {D(non_linear_function, lamda, k)}})
                : non_linear_function \in {Subs(self.non_linear_func, self.u, psum)}})
          : psum \in {parametrized_sum(heap[self.us])}})

\* the value one pass of the loop in solve() computes and appends
next_u_val(self, heap, k) ==
    Only({Only({simplify(PNeg(inverse))
                : inverse \in {inverse_operator(adomian_poly, xi)}})
          : adomian_poly \in {calculate_adomian_polynomial(self, heap, k)}})

\* ------------------------------------------------------------- exceptions
NoStep == -1
NoOp == "none"
NoExc == [type |-> "None", msg |-> "", step |-> NoStep, operation |-> NoOp]
\* raise ValueError("Number of terms must be a positive integer.")
ValueErrorNumTerms ==
    [type |-> "ValueError", msg |-> "Number of terms must be a positive integer.",
     step |-> NoStep, operation |-> NoOp]
\* sympy's Integer(x) on an argument int() cannot convert
TypeErrorInteger ==
    [type |-> "TypeError", msg |-> "Argument of Integer should be of numeric type",
     step |-> NoStep, operation |-> NoOp]
\* an exception raised inside a sympy call: it knows nothing of the solver's
\* loop index, so it carries neither a step nor an operation attribute
EngineError(ty) ==
    [type |-> ty, msg |-> "raised inside sympy", step |-> NoStep, operation |-> NoOp]

EngineErrorTypes == {"ValueError", "NotImplementedError"}
\* the sympy entry points one loop pass goes through
EngineOps == {"subs", "diff", "integrate", "simplify"}

\* ------------------------------------------------------- caller's inputs
\* num_terms as a Python value: its type and its value
IntVal(n) == [ty |-> "int", v |-> <<n, 1>>]
FloatVal(n, d) == [ty |-> "float", v |-> <<n, d>>]
NumTermsInputs ==
    {IntVal(n) : n \in {-3, -1, 0} \cup (1..MaxTerms)} \cup {FloatVal(2, 1), FloatVal(5, 2)}

NonLinearFuncs ==
    { PSym(u),
      PSymPow(u, 2),
      PMul(PSym(q), PSymPow(u, 2)),
      PMul(PSym(t), PSym(u)),
      PMul(PSym(lamda), PSym(u)),
      PMul(PSym(s), PSym(u)) }

\* 5/2 and -3/2 stand for the non-integer constants a caller passes (the
\* driver passes 1 + pi/2); q is a free symbol
InitialConditions ==
    { PInt(0), PInt(1), PConst(<<5, 2>>), PConst(<<-3, 2>>), PSym(q) }

isinstance_int(val) == val.ty = "int"

\* sympy's Integer(x): int(x), which truncates a numeric constant towards
\* zero, and TypeError when x has free symbols
IsNumber(p) == DOMAIN p \subseteq {MOne}
Trunc(r) == IF r[1] < 0 THEN -((-r[1]) \div r[2]) ELSE r[1] \div r[2]
Integer(p) == PInt(Trunc(Coef(p, MOne)))

\* ---------------------------------------------------------------- objects
\* An object is its attribute dictionary: a function from the names of the
\* attributes assigned so far to their values.  A list is a sequence in
\* heap, and a reference to it is its index there.
NoObject == [a \in {} |-> 0]
SetAttr(obj, a, val) == (a :> val) @@ obj
HasAttr(obj, a) == a \in DOMAIN obj
SolverAttrs == {"num_terms", "non_linear_func", "initial_condition", "u", "us", "u_symbols"}

\* the constructor with the validation placed after the first assignments
init_late_check(heap, num_terms, non_linear_func, initial_condition) ==
    LET o1 == SetAttr(NoObject, "num_terms", num_terms.v[1])
        o2 == SetAttr(o1, "non_linear_func", non_linear_func)
    IN  IF ~isinstance_int(num_terms) \/ num_terms.v[1] <= 0
        THEN [self |-> o2, heap |-> heap, exc |-> ValueErrorNumTerms, engine |-> <<>>]
        ELSE IF ~IsNumber(initial_condition)
             THEN [self |-> o2, heap |-> heap, exc |-> TypeErrorInteger,
                   engine |-> <<"Integer">>]
             ELSE LET o3 == SetAttr(o2, "initial_condition", Integer(initial_condition))
                      o4 == SetAttr(o3, "u", u)
                      o5 == SetAttr(o4, "us", Len(heap) + 1)
                      o6 == SetAttr(o5, "u_symbols", Len(heap) + 2)
                  IN  [self |-> o6, heap |-> heap \o <<(<<>>), (<<>>)>>,
                       exc |-> NoExc, engine |-> <<"Integer">>]

\* LaneEmdenSolver.__init__: the object as the constructor leaves it, the
\* heap, the exception raised (NoExc when it returns) and the sympy calls made
init(heap, num_terms, non_linear_func, initial_condition) ==
    IF ~isinstance_int(num_terms) \/ num_terms.v[1] <= 0
    THEN [self |-> NoObject, heap |-> heap, exc |-> ValueErrorNumTerms, engine |-> <<>>]
    ELSE LET o1 == SetAttr(NoObject, "num_terms", num_terms.v[1])
             o2 == SetAttr(o1, "non_linear_func", non_linear_func)
         IN  IF ~IsNumber(initial_condition)
             THEN [self |-> o2, heap |-> heap, exc |-> TypeErrorInteger,
                   engine |-> <<"Integer">>]
             ELSE LET o3 == SetAttr(o2, "initial_condition", Integer(initial_condition))
                      o4 == SetAttr(o3, "u", u)
                      o5 == SetAttr(o4, "us", Len(heap) + 1)
                      o6 == SetAttr(o5, "u_symbols", Len(heap) + 2)
                  IN  [self |-> o6, heap |-> heap \o <<(<<>>), (<<>>)>>,
                       exc |-> NoExc, engine |-> <<"Integer">>]

\* solve() that forgets to append u_0
solve_begin_no_u0(self, heap) ==
    LET o1 == SetAttr(self, "us", Len(heap) + 1)
        o2 == SetAttr(o1, "u_symbols", Len(heap) + 2)
    IN  [self |-> o2, heap |-> heap \o <<(<<>>), (<<>>)>>]

\* solve() that empties the lists in place (self.us.clear()) instead of
\* rebinding the attributes to new lists
solve_begin_in_place(self, heap) ==
    [self |-> self,
     heap |-> [heap EXCEPT ![self.us] = <<self.initial_condition>>,
                           ![self.u_symbols] = <<0>>]]

\* solve() without the reset: it appends to the lists of the previous call
solve_begin_accumulate(self, heap) ==
    [self |-> self,
     heap |-> [heap EXCEPT ![self.us] = Append(@, self.initial_condition),
                           ![self.u_symbols] = Append(@, 0)]]

\* solve(), lines 103-110: rebind both lists to fresh empty lists, then
\* append u_0
solve_begin(self, heap) ==
    LET o1 == SetAttr(self, "us", Len(heap) + 1)
        o2 == SetAttr(o1, "u_symbols", Len(heap) + 2)
    IN  [self |-> o2,
         heap |-> heap \o <<(<<self.initial_condition>>), (<<0>>)>>]

\* range(self.num_terms)
loop_stop_inclusive(self) == self.num_terms

\* range(self.num_terms - 1): the number of passes of the loop
loop_stop(self) == self.num_terms - 1

\* one pass of the loop, lines 117-122
solve_pass(self, heap0, k) ==
    Only({[heap EXCEPT ![self.us] = Append(@, next_u_val(self, heap, k)),
                       ![self.u_symbols] = Append(@, k + 1)]
          : heap \in {heap0}})

\* lines 127-131: the pair solve() returns; the second item is the list
\* self.us itself, not a copy
solve_return(self, heap) ==
    [approx_solution |-> PSumSeq(heap[self.us]), us |-> self.us]

\* solve() wrapping what sympy raised in an error of its own
solve_raise_wrapped(e, k, op) ==
    [type |-> "SymbolicComputationError", msg |-> e.msg, step |-> k, operation |-> op]

\* solve() has no try/except: an exception raised by sympy in pass k
\* unwinds the frame and reaches the caller as it is
solve_raise(e, k, op) == e

\* solve() run to its end from pass k on, with the sympy failure `fail`
\* (NoFailure: every sympy call returns); used where a caller runs solve()
\* as one statement
NoFailure == [step |-> NoStep, op |-> NoOp, exc |-> NoExc]
NoValue == [approx_solution |-> PZero, us |-> 0]

RECURSIVE solve_loop(_, _, _, _)
solve_loop(self, heap0, k, fail) ==
    Only({IF k >= loop_stop(self)
          THEN [kind |-> "returned", exc |-> NoExc, value |-> solve_return(self, heap),
                heap |-> heap]
          ELSE IF fail.step = k
               THEN [kind |-> "raised", exc |-> solve_raise(fail.exc, k, fail.op),
                     value |-> NoValue, heap |-> heap]
               ELSE solve_loop(self, solve_pass(self, heap, k), k + 1, fail)
          : heap \in {heap0}})

solve(self, heap, fail) ==
    Only({solve_loop(b.self, b.heap, 0, fail) : b \in {solve_begin(self, heap)}})

\* LaneEmdenSolver(num_terms=..., non_linear_func=..., initial_condition=...).solve()
construct_and_solve(cfg, fail) ==
    Only({IF c.exc # NoExc
          THEN [kind |-> "raised", exc |-> c.exc, value |-> NoValue, heap |-> c.heap]
          ELSE solve(c.self, c.heap, fail)
          : c \in {init(<<>>, cfg.num_terms, cfg.non_linear_func, cfg.initial_condition)}})

\* a try statement around each configuration: go on with the next one
except_resume_continue(idx) == [pc |-> "try", idx |-> idx + 1]

\* main(): one try statement around the whole batch, `except ValueError`
\* prints and falls off the end of main
except_resume(idx) == [pc |-> "done", idx |-> idx]

\* ------------------------------------------------------------------ state
VARIABLES
    solvers,    \* solver id -> the LaneEmdenSolver object (NoObject: none)
    heap,       \* the list objects
    frame,      \* solver id -> where its caller is: pc and loop index k
    args,       \* solver id -> the arguments the constructor was called with
    outcome,    \* solver id -> how the last call on it ended
    returns,    \* solver id -> what each solve() returned, with a snapshot
    calls,      \* solver id -> number of solve() calls begun
    passes,     \* solver id -> loop passes begun in the current/last solve()
    failure,    \* solver id -> the sympy failure of the last solve(), if any
    batch,      \* main(): the configurations, in order
    mainPc,     \* main(): "off", "try", "except", "done", "crashed"
    mainIdx,    \* main(): the configuration the try block is at
    attempted,  \* main(): how each configuration run so far ended
    reported    \* main(): the errors printed by the except clause

solverVars == <<solvers, heap, frame, args, outcome, returns, calls, passes, failure>>
mainVars == <<batch, mainPc, mainIdx, attempted, reported>>
vars == <<solvers, heap, frame, args, outcome, returns, calls, passes, failure,
          batch, mainPc, mainIdx, attempted, reported>>

SolverIds == {1, 2}
NoArgs == [num_terms |-> IntVal(0), non_linear_func |-> PZero, initial_condition |-> PZero]
NoOutcome ==
    [call |-> "none", kind |-> "none", exc |-> NoExc, value |-> NoValue,
     self |-> NoObject, engine |-> <<>>]

NoSolvers ==
    /\ solvers = [i \in SolverIds |-> NoObject]
    /\ heap = <<>>
    /\ frame = [i \in SolverIds |-> [pc |-> "absent", k |-> 0]]
    /\ args = [i \in SolverIds |-> NoArgs]
    /\ outcome = [i \in SolverIds |-> NoOutcome]
    /\ returns = [i \in SolverIds |-> <<>>]
    /\ calls = [i \in SolverIds |-> 0]
    /\ passes = [i \in SolverIds |-> 0]
    /\ failure = [i \in SolverIds |-> NoFailure]

MainOff ==
    /\ batch = <<>>
    /\ mainPc = "off"
    /\ mainIdx = 0
    /\ attempted = <<>>
    /\ reported = <<>>

Init == NoSolvers /\ MainOff

\* ---------------------------------------------------------------- actions
\* solver i is constructed: LaneEmdenSolver(num_terms, non_linear_func, initial_condition)
Construct(i, num_terms, non_linear_func, initial_condition) ==
    /\ frame[i].pc = "absent"
    /\ \E c \in {init(heap, num_terms, non_linear_func, initial_condition)} :
           /\ args' = [args EXCEPT ![i] =
                         [num_terms |-> num_terms, non_linear_func |-> non_linear_func,
                          initial_condition |-> initial_condition]]
           /\ heap' = c.heap
           /\ outcome' = [outcome EXCEPT ![i] =
                            [call |-> "init", kind |-> IF c.exc = NoExc THEN "returned" ELSE "raised",
                             exc |-> c.exc, value |-> NoValue, self |-> c.self,
                             engine |-> c.engine]]
           /\ solvers' = [solvers EXCEPT ![i] = IF c.exc = NoExc THEN c.self ELSE NoObject]
           /\ frame' = [frame EXCEPT ![i] =
                          [pc |-> IF c.exc = NoExc THEN "idle" ELSE "dead", k |-> 0]]
    /\ UNCHANGED <<returns, calls, passes, failure>>

\* solve() is called on solver i and runs up to the loop
SolveBegin(i) ==
    /\ frame[i].pc = "idle"
    /\ \E b \in {solve_begin(solvers[i], heap)} :
           /\ solvers' = [solvers EXCEPT ![i] = b.self]
           /\ heap' = b.heap
    /\ frame' = [frame EXCEPT ![i] = [pc |-> "loop", k |-> 0]]
    /\ calls' = [calls EXCEPT ![i] = @ + 1]
    /\ passes' = [passes EXCEPT ![i] = 0]
    /\ failure' = [failure EXCEPT ![i] = NoFailure]
    /\ outcome' = [outcome EXCEPT ![i] = NoOutcome]
    /\ UNCHANGED <<args, returns>>

\* one pass of the loop, every sympy call returning
SolveStep(i) ==
    /\ frame[i].pc = "loop"
    /\ frame[i].k < loop_stop(solvers[i])
    /\ heap' = solve_pass(solvers[i], heap, frame[i].k)
    /\ frame' = [frame EXCEPT ![i].k = @ + 1]
    /\ passes' = [passes EXCEPT ![i] = @ + 1]
    /\ UNCHANGED <<solvers, args, outcome, returns, calls, failure>>

\* one pass of the loop in which the sympy call op raises an exception
SolveStepRaise(i, op, ty) ==
    /\ frame[i].pc = "loop"
    /\ frame[i].k < loop_stop(solvers[i])
    /\ passes' = [passes EXCEPT ![i] = @ + 1]
    /\ failure' = [failure EXCEPT ![i] =
                     [step |-> frame[i].k, op |-> op, exc |-> EngineError(ty)]]
    /\ outcome' = [outcome EXCEPT ![i] =
                     [call |-> "solve", kind |-> "raised",
                      exc |-> solve_raise(EngineError(ty), frame[i].k, op),
                      value |-> NoValue, self |-> solvers[i], engine |-> <<op>>]]
    /\ frame' = [frame EXCEPT ![i] = [pc |-> "idle", k |-> 0]]
    /\ UNCHANGED <<solvers, heap, args, returns, calls>>

\* the loop is over: sum the components and return
SolveReturn(i) ==
    /\ frame[i].pc = "loop"
    /\ frame[i].k >= loop_stop(solvers[i])
    /\ \E r \in {solve_return(solvers[i], heap)} :
           /\ outcome' = [outcome EXCEPT ![i] =
                            [call |-> "solve", kind |-> "returned", exc |-> NoExc,
                             value |-> r, self |-> solvers[i], engine |-> <<>>]]
           /\ returns' = [returns EXCEPT ![i] =
                            Append(@, [approx_solution |-> r.approx_solution, us |-> r.us,
                                       components |-> heap[r.us]])]
    /\ frame' = [frame EXCEPT ![i] = [pc |-> "idle", k |-> 0]]
    /\ UNCHANGED <<solvers, heap, args, calls, passes, failure>>

\* ------------------------------------------- one solver, called repeatedly
ConstructAny ==
    /\ \E nt \in NumTermsInputs, f \in NonLinearFuncs, ic \in InitialConditions :
          Construct(1, nt, f, ic)
    /\ UNCHANGED mainVars

CallSolve == calls[1] < MaxSolves /\ SolveBegin(1) /\ UNCHANGED mainVars
Pass == SolveStep(1) /\ UNCHANGED mainVars
PassRaise ==
    /\ \E op \in EngineOps, ty \in EngineErrorTypes : SolveStepRaise(1, op, ty)
    /\ UNCHANGED mainVars
Return == SolveReturn(1) /\ UNCHANGED mainVars

Next == ConstructAny \/ CallSolve \/ Pass \/ PassRaise \/ Return

Spec == Init /\ [][Next]_vars

\* solve() is a synchronous call: once begun it keeps running
FairSpec == Spec /\ WF_vars(Pass \/ PassRaise \/ Return)

\* ------------------------------ two solvers, num_terms = N and N + 1
NumericInitialConditions == {ic \in InitialConditions : IsNumber(ic)}

TruncInit ==
    /\ \E N \in 1..MaxTerms, f \in NonLinearFuncs, ic \in NumericInitialConditions :
          LET c1 == init(<<>>, IntVal(N), f, ic)
              c2 == init(c1.heap, IntVal(N + 1), f, ic)
              made(c) == [call |-> "init", kind |-> "returned", exc |-> NoExc,
                          value |-> NoValue, self |-> c.self, engine |-> c.engine]
          IN  /\ solvers = (1 :> c1.self) @@ (2 :> c2.self)
              /\ heap = c2.heap
              /\ args = (1 :> [num_terms |-> IntVal(N), non_linear_func |-> f,
                               initial_condition |-> ic])
                        @@ (2 :> [num_terms |-> IntVal(N + 1), non_linear_func |-> f,
                                  initial_condition |-> ic])
              /\ outcome = (1 :> made(c1)) @@ (2 :> made(c2))
    /\ frame = [i \in SolverIds |-> [pc |-> "idle", k |-> 0]]
    /\ returns = [i \in SolverIds |-> <<>>]
    /\ calls = [i \in SolverIds |-> 0]
    /\ passes = [i \in SolverIds |-> 0]
    /\ failure = [i \in SolverIds |-> NoFailure]
    /\ MainOff

TruncCall == (\E i \in SolverIds : calls[i] = 0 /\ SolveBegin(i)) /\ UNCHANGED mainVars
TruncPass == (\E i \in SolverIds : SolveStep(i)) /\ UNCHANGED mainVars
TruncPassRaise ==
    /\ \E i \in SolverIds, op \in EngineOps, ty \in EngineErrorTypes : SolveStepRaise(i, op, ty)
    /\ UNCHANGED mainVars
TruncReturn == (\E i \in SolverIds : SolveReturn(i)) /\ UNCHANGED mainVars

TruncNext == TruncCall \/ TruncPass \/ TruncPassRaise \/ TruncReturn

TruncSpec == TruncInit /\ [][TruncNext]_vars

\* ----------------------------------------------------------------- main()
\* The batch main() runs is a literal list of valid configurations; the
\* model runs every batch of BatchLen valid configurations of its domain.
DriverConfigs ==
    [num_terms : {IntVal(n) : n \in 1..MaxTerms},
     non_linear_func : {PSymPow(u, 2)},
     initial_condition : {PInt(1), PConst(<<5, 2>>)}]

FailChoices(cfg) ==
    {NoFailure} \cup
    [step : 0..(cfg.num_terms.v[1] - 2), op : EngineOps,
     exc : {EngineError(ty) : ty \in EngineErrorTypes}]

MainInit ==
    /\ NoSolvers
    /\ batch \in [1..BatchLen -> DriverConfigs]
    /\ mainPc = "try"
    /\ mainIdx = 1
    /\ attempted = <<>>
    /\ reported = <<>>

\* the next statement of the try block: construct a solver and solve
MainCall ==
    /\ mainPc = "try"
    /\ mainIdx <= Len(batch)
    /\ \E fail \in FailChoices(batch[mainIdx]) :
          \E r \in {construct_and_solve(batch[mainIdx], fail)} :
              /\ attempted' = Append(attempted,
                    [idx |-> mainIdx, kind |-> r.kind, exc |-> r.exc,
                     approx_solution |-> r.value.approx_solution])
              /\ mainIdx' = IF r.kind = "returned" THEN mainIdx + 1 ELSE mainIdx
              /\ mainPc' = IF r.kind = "returned" THEN "try"
                           ELSE IF r.exc.type = "ValueError" THEN "except"
                           ELSE "crashed"
    /\ UNCHANGED <<batch, reported>>
    /\ UNCHANGED solverVars

\* except ValueError as e: print(f"Error: {e}")
MainExcept ==
    /\ mainPc = "except"
    /\ reported' = Append(reported, attempted[Len(attempted)].exc)
    /\ mainPc' = except_resume(mainIdx).pc
    /\ mainIdx' = except_resume(mainIdx).idx
    /\ UNCHANGED <<batch, attempted>>
    /\ UNCHANGED solverVars

\* the try block ran to its end
MainEnd ==
    /\ mainPc = "try"
    /\ mainIdx > Len(batch)
    /\ mainPc' = "done"
    /\ UNCHANGED <<batch, mainIdx, attempted, reported>>
    /\ UNCHANGED solverVars

MainNext == MainCall \/ MainExcept \/ MainEnd

MainSpec == MainInit /\ [][MainNext]_vars

\* ================================================================= claims
Components(i) == heap[solvers[i].us]
Returned(i) == outcome[i].call = "solve" /\ outcome[i].kind = "returned"
Raised(i) == outcome[i].call = "solve" /\ outcome[i].kind = "raised"
ValidNumTerms(val) == val.ty = "int" /\ val.v[1] >= 1
Min(a, b) == IF a < b THEN a ELSE b

\* C1: when solve() returns, the returned component list has exactly
\* num_terms entries (num_terms as the caller passed it).
C1_LenIsNumTerms ==
    \A i \in SolverIds :
        Returned(i) => Len(heap[outcome[i].value.us]) = args[i].num_terms.v[1]

C1_Witness ==
    /\ Returned(1)
    /\ args[1].num_terms.v[1] >= 2
    /\ Len(heap[outcome[1].value.us]) = args[1].num_terms.v[1]

\* C2 (as claimed): components[0] returned by solve(), and the
\* initial_condition the constructor stores, are the caller's
\* initial_condition unchanged, for every expression the caller passes.
C2_InitialConditionAsIs ==
    \A i \in SolverIds :
        /\ HasAttr(solvers[i], "initial_condition")
              => solvers[i].initial_condition = args[i].initial_condition
        /\ Returned(i) => heap[outcome[i].value.us][1] = args[i].initial_condition

\* C3: a constructor call with num_terms that is not a positive int raises
\* the ValueError before any sympy call, with no attribute of the object
\* set, and gives the caller no solver.
C3_InvalidNumTermsRejected ==
    \A i \in SolverIds :
        (outcome[i].call = "init" /\ ~ValidNumTerms(args[i].num_terms))
            => /\ outcome[i].kind = "raised"
               /\ outcome[i].exc = ValueErrorNumTerms
               /\ DOMAIN outcome[i].self \cap SolverAttrs = {}
               /\ outcome[i].engine = <<>>
               /\ solvers[i] = NoObject
               /\ frame[i].pc = "dead"

C3_Witness ==
    /\ outcome[1].call = "init"
    /\ args[1].num_terms = IntVal(-3)
    /\ outcome[1].exc = ValueErrorNumTerms

\* C4: with the same non_linear_func and initial_condition, the components
\* of the solver with num_terms = N and of the solver with num_terms = N + 1
\* agree at every index both hold, and pass k of the loop builds its Adomian
\* polynomial from the components 0..k only.
C4_TruncationConsistent ==
    /\ \A j \in 1..Min(Len(Components(1)), Len(Components(2))) :
           Components(1)[j] = Components(2)[j]
    /\ \A i \in SolverIds : frame[i].pc = "loop" => Len(Components(i)) = frame[i].k + 1

C4_Witness ==
    /\ Returned(1)
    /\ Returned(2)
    /\ Len(Components(1)) >= 2
    /\ Len(Components(2)) = Len(Components(1)) + 1
    /\ Components(1)[2] # PZero

\* C5: every solve() call on one solver returns the same approx_solution and
\* the same components, and a list returned by an earlier call is never
\* altered afterwards.
C5_SolveIdempotent ==
    \A i \in SolverIds :
        /\ \A a, b \in 1..Len(returns[i]) :
               /\ returns[i][a].approx_solution = returns[i][b].approx_solution
               /\ returns[i][a].components = returns[i][b].components
        /\ \A a \in 1..Len(returns[i]) : heap[returns[i][a].us] = returns[i][a].components

C5_Witness ==
    /\ Len(returns[1]) >= 2
    /\ Len(returns[1][1].components) >= 2
    /\ returns[1][1].us # returns[1][2].us

\* C6 (as claimed): when a configuration of the batch raises ValueError,
\* main() reports it and still runs every later configuration.
C6_ContinuesAfterError ==
    (mainPc = "done" /\ reported # <<>>) => Len(attempted) = Len(batch)

\* C6 (amended): when a configuration of the batch raises ValueError, main()
\* reports it and ends; no later configuration is constructed or solved.
C6_StopsAfterError ==
    /\ \A j \in 1..Len(attempted) :
           attempted[j].kind = "raised" => j = Len(attempted)
    /\ (mainPc = "done" /\ reported # <<>>)
           => /\ reported = <<attempted[Len(attempted)].exc>>
              /\ attempted[Len(attempted)].exc.type = "ValueError"
              /\ \A j \in 1..Len(attempted) : attempted[j].idx = j
    /\ (mainPc = "done" /\ reported = <<>>) => Len(attempted) = Len(batch)

C6_Witness ==
    /\ mainPc = "done"
    /\ Len(reported) = 1
    /\ Len(attempted) < Len(batch)

\* C7 (as claimed): a sympy failure in pass k reaches the caller of solve()
\* as a symbolic-computation error carrying k and the failing operation.
C7_CarriesStepAndOperation ==
    \A i \in SolverIds :
        Raised(i) => /\ outcome[i].exc.type = "SymbolicComputationError"
                     /\ outcome[i].exc.step = failure[i].step
                     /\ outcome[i].exc.operation = failure[i].op

\* C7 (amended): a sympy failure in pass k reaches the caller of solve() as
\* the very exception sympy raised; solve() does not catch it and does not
\* run the pass again.
C7_PropagatesUnchanged ==
    \A i \in SolverIds :
        Raised(i) => /\ outcome[i].exc = failure[i].exc
                     /\ frame[i].pc = "idle"
                     /\ passes[i] = failure[i].step + 1
                     /\ Len(Components(i)) = failure[i].step + 1

C7_Witness ==
    /\ Raised(1)
    /\ failure[1].step = 1
    /\ failure[1].op = "integrate"
    /\ outcome[1].exc = EngineError("NotImplementedError")

\* C8: a solve() that returns has run exactly num_terms - 1 passes of the
\* loop, and a solve() that has begun always ends.
C8_Terminates ==
    /\ [](\A i \in SolverIds : Returned(i) => passes[i] = args[i].num_terms.v[1] - 1)
    /\ (frame[1].pc = "loop") ~> (frame[1].pc = "idle")

C8_Witness ==
    /\ Returned(1)
    /\ args[1].num_terms.v[1] >= 3
    /\ passes[1] = args[1].num_terms.v[1] - 1

\* C9 (as claimed): no symbol of the caller's non_linear_func is captured by
\* the solver's lamda, s or t: the components are those computed with the
\* caller's symbol renamed apart (to q) and renamed back.
InternalSymbols == {lamda, s, t}
CallerSymbols(f) ==
    {v \in {SymbolNames[j] : j \in 1..Len(SymbolNames)} \ {u} :
        \E mm \in DOMAIN f : MExp(mm, v) # 0}

ComponentsRenamedApart(cfg, c) ==
    Only({[j \in 1..Len(cs) |-> Subs(cs[j], q, PSym(c))]
          : cs \in {Only({r.heap[r.value.us]
                          : r \in {construct_and_solve(
                                      [cfg EXCEPT !.non_linear_func = Subs(@, c, PSym(q))],
                                      NoFailure)}})}})

C9_NoCapture ==
    \A i \in SolverIds :
        Returned(i) =>
            \A c \in CallerSymbols(args[i].non_linear_func) \cap InternalSymbols :
                q \notin CallerSymbols(args[i].non_linear_func)
                    => heap[outcome[i].value.us] = ComponentsRenamedApart(args[i], c)

\* C10 (as claimed): a solver that is not inside solve() holds no components
\* or all num_terms components.
C10_TwoStates ==
    \A i \in SolverIds :
        frame[i].pc = "idle" =>
            \/ Len(Components(i)) = 0
            \/ Len(Components(i)) = solvers[i].num_terms

\* C10 (amended): a solver that is not inside solve() is Configured (no
\* solve() yet, no components), Solved (the last solve() returned, all
\* num_terms components) or Failed (the last solve() raised in pass k and
\* the solver holds the first k + 1 components, fewer than num_terms).
C10_ThreeStates ==
    \A i \in SolverIds :
        frame[i].pc = "idle" =>
            \/ calls[i] = 0 /\ Len(Components(i)) = 0
            \/ Returned(i) /\ Len(Components(i)) = solvers[i].num_terms
            \/ /\ Raised(i)
               /\ Len(Components(i)) = failure[i].step + 1
               /\ Len(Components(i)) >= 1
               /\ Len(Components(i)) < solvers[i].num_terms

C10_Witness ==
    /\ frame[1].pc = "idle"
    /\ Raised(1)
    /\ calls[1] = 2
    /\ Len(Components(1)) = 2
    /\ solvers[1].num_terms = 3
====
